---- MODULE Spec2Model ----
(***************************************************************************)
(* Forecast lifecycle of the trading bot (src/bot.py): the forecasts table *)
(* of backtest.db, the evaluation sweep, the market scan with its cooldown *)
(* and the classification step of analyze.                                 *)
(*                                                                         *)
(* Units.  The clock counts whole hours.  Prices are in tenths of a quote  *)
(* unit (1000 is 100.0), percentages in thousandths of a percent (1500 is  *)
(* 1.5 %), the composite score in hundredths (30 is 0.30) and P&L in       *)
(* hundredths of a USDT.  The floats of the source are exact rationals on  *)
(* the inputs used here, so fixed point loses nothing.                     *)
(***************************************************************************)
EXTENDS Integers, Sequences, FiniteSets, TLC

VARIABLES
    clock,       \* the wall clock, datetime.now()
    forecasts,   \* table forecasts of backtest.db, in id order
    sent,        \* calls of send_telegram made by the control loop
    last_alert,  \* main(): symbol -> start of the cycle that last alerted
    now,         \* main(): start of the running cycle
    pending,     \* main(): rows of get_pending() still to evaluate
    result,      \* main(): what the last evaluate_with_sl_tp returned
    mi,          \* main(): index into MARKETS of the market to scan next
    candles,     \* main(): what the last fetch_candles returned
    pc,          \* main(): "loop", "eval" or "scan"
    pending2,    \* a second evaluator's rows still to evaluate
    pc2,         \* a second evaluator: "loop" or "eval"
    history,     \* analyze(): the candles it is called with
    analysis,    \* analyze(): the dict it returns
    macd_in,     \* calc_macd(): its arguments closes, fast, slow, sig
    macd_v,      \* calc_macd(): the dict it returns
    wall,        \* datetime.now() to the minute, in minutes since day 0, 00:00
    daily_summary, \* table daily_summary of backtest.db: the dates with sent=1
    summaries    \* calls send_telegram(format_daily_summary()) and what they
                 \* returned, in order

vars == <<clock, forecasts, sent, last_alert, now, pending, result, mi,
          candles, pc, pending2, pc2, history, analysis, macd_in, macd_v,
          wall, daily_summary, summaries>>

mainVars == <<last_alert, now, pending, result, mi, candles, pc>>
secondVars == <<pending2, pc2>>
analysisVars == <<history, analysis>>
macdVars == <<macd_in, macd_v>>
summaryVars == <<wall, daily_summary, summaries>>
restVars == <<analysisVars, macdVars, summaryVars>>

---------------------------------------------------------------------------
(* Bounds of the model. *)

\* the clock saturates at MaxTime hours
MaxTime == 2
\* rows the forecasts table may hold
MaxForecasts == 2
\* longest time (hours) between the two clock reads of save_forecast
MaxDelay == 1
\* longest close sequence given to calc_macd with short periods
MaxCloses == 6
\* longest close sequence given to calc_macd with its default periods
MaxFlat == 35
\* markets of MARKETS that are scanned (a prefix of the list)
NumMarkets == 2
\* longest candle history given to analyze as a whole
MaxHistory == 20
\* days the minute clock runs through
MaxDays == 2
\* minutes a cycle of the control loop may take beyond SCAN_INTERVAL
MaxLag == 2

---------------------------------------------------------------------------
(* Configuration, src/bot.py:17-25.  Every value is read from the          *)
(* environment; the values below are one admissible environment whose      *)
(* times are whole hours.                                                  *)

\* CONFIDENCE_THRESHOLD (default 75)
CONFIDENCE_THRESHOLD == 75
\* SCAN_INTERVAL in seconds (default 300)
SCAN_INTERVAL == 3600
\* COOLDOWN_MINUTES (default 60)
COOLDOWN_MINUTES == 120
\* EVAL_HOURS (default 4)
EVAL_HOURS == 2
\* STOP_LOSS_PCT 1.5, in thousandths of a percent
STOP_LOSS_PCT == 1500
\* TAKE_PROFIT_PCT 3.0, in thousandths of a percent
TAKE_PROFIT_PCT == 3000
\* TRADE_SIZE_USDT 1000
TRADE_SIZE_USDT == 1000
RISK_PROFILE == "ausgewogen"
\* DAILY_SUMMARY_HOUR (default 20)
DAILY_SUMMARY_HOUR == 20

MARKETS == <<"BTCUSDT", "ETHUSDT", "SOLUSDT", "BNBUSDT">>

\* RISK_PROFILES[...]["signal_threshold"], in hundredths
signal_threshold(risk_key) ==
    CASE risk_key = "konservativ" -> 50
      [] risk_key = "aggressiv"   -> 15
      [] OTHER                    -> 30

---------------------------------------------------------------------------
(* Values. *)

\* SQL NULL / Python None, and a present value
NULL == <<>>
Some(v) == <<v>>
Val(o) == o[1]

Min(a, b) == IF a <= b THEN a ELSE b
Max(a, b) == IF a >= b THEN a ELSE b
Abs(a) == IF a < 0 THEN -a ELSE a

\* datetime.now() after d more hours have passed (the model's clock saturates)
Later(d) == Min(clock + d, MaxTime)
Delays == 0..MaxDelay

\* datetime.isoformat(): a fixed-width digit string, most significant first
isoformat(t) == <<t \div 10, t % 10>>
\* datetime.fromisoformat()
fromisoformat(s) == s[1] * 10 + s[2]
\* comparison of two TEXT values (SQLite BINARY collation): lexicographic
RECURSIVE TextLeq(_, _)
TextLeq(a, b) ==
    IF a = <<>> THEN TRUE
    ELSE IF b = <<>> THEN FALSE
    ELSE IF Head(a) < Head(b) THEN TRUE
    ELSE IF Head(a) > Head(b) THEN FALSE
    ELSE TextLeq(Tail(a), Tail(b))

\* Python round(): n/d to the nearest integer, ties to even (d > 0)
round(n, d) ==
    LET q == n \div d
        r == n % d
    IN  IF 2 * r < d THEN q
        ELSE IF 2 * r > d THEN q + 1
        ELSE IF q % 2 = 0 THEN q ELSE q + 1

---------------------------------------------------------------------------
(* Forecast store. *)

\* INSERT INTO forecasts: the row save_forecast writes.  exit_price,
\* return_pct, outcome, pnl_usdt are NULL, sl_hit, tp_hit, evaluated take
\* their DEFAULT 0, id is AUTOINCREMENT.  t1 is the datetime.now() eval_time
\* is computed from, t2 the later datetime.now() stored as created_at.
save_forecast(symbol, signal, confidence, entry_price, risk_profile, t1, t2) ==
    [id           |-> Len(forecasts) + 1,
     symbol       |-> symbol,
     signal       |-> signal,
     confidence   |-> confidence,
     entry_price  |-> entry_price,
     exit_price   |-> NULL,
     risk_profile |-> risk_profile,
     return_pct   |-> NULL,
     outcome      |-> NULL,
     sl_hit       |-> 0,
     tp_hit       |-> 0,
     pnl_usdt     |-> NULL,
     created_at   |-> isoformat(t2),
     eval_at      |-> isoformat(t1 + EVAL_HOURS),
     evaluated    |-> 0]

\* the WHERE clause without its deadline
Due_NoDeadline(f, nowText) == f.evaluated = 0

\* WHERE evaluated=0 AND eval_at<=?
Due(f, nowText) == f.evaluated = 0 /\ TextLeq(f.eval_at, nowText)

\* ORDER BY created_at DESC
OrderedByCreated_Desc(rows) ==
    \A i, j \in 1..Len(rows) :
        i < j => TextLeq(rows[j].created_at, rows[i].created_at)

\* ORDER BY created_at ASC
OrderedByCreated(rows) ==
    \A i, j \in 1..Len(rows) :
        i < j => TextLeq(rows[i].created_at, rows[j].created_at)

\* the columns get_pending selects
Row(f) == [id |-> f.id, symbol |-> f.symbol, signal |-> f.signal,
           confidence |-> f.confidence, entry_price |-> f.entry_price,
           risk_profile |-> f.risk_profile, created_at |-> f.created_at,
           eval_at |-> f.eval_at]

\* get_pending(): every result the query may give at datetime.now() = t
\* (rows with equal created_at come in an order SQLite does not fix)
get_pending(t) ==
    LET due == {i \in 1..Len(forecasts) : Due(forecasts[i], isoformat(t))}
        n   == Cardinality(due)
    IN  {rows \in [1..n -> {Row(forecasts[i]) : i \in due}] :
            /\ \A i, j \in 1..n : i # j => rows[i] # rows[j]
            /\ OrderedByCreated(rows)}

\* the UPDATE without evaluated=1
mark_evaluated_NoFlag(fid, exit, ret, outcome, sl_hit, tp_hit, pnl) ==
    [i \in 1..Len(forecasts) |->
        IF forecasts[i].id = fid
        THEN [forecasts[i] EXCEPT !.exit_price = Some(exit),
                                  !.return_pct = Some(ret),
                                  !.outcome    = Some(outcome),
                                  !.sl_hit     = sl_hit,
                                  !.tp_hit     = tp_hit,
                                  !.pnl_usdt   = Some(pnl)]
        ELSE forecasts[i]]

\* UPDATE forecasts SET ... , evaluated=1 WHERE id=?
mark_evaluated(fid, exit, ret, outcome, sl_hit, tp_hit, pnl) ==
    [i \in 1..Len(forecasts) |->
        IF forecasts[i].id = fid
        THEN [forecasts[i] EXCEPT !.exit_price = Some(exit),
                                  !.return_pct = Some(ret),
                                  !.outcome    = Some(outcome),
                                  !.sl_hit     = sl_hit,
                                  !.tp_hit     = tp_hit,
                                  !.pnl_usdt   = Some(pnl),
                                  !.evaluated  = 1]
        ELSE forecasts[i]]

---------------------------------------------------------------------------
(* Scoring engine: the classification that ends analyze.  The candle       *)
(* history a fetch returns is represented by what its indicators add up to *)
(* (score: the sum of score x weight over the components that fired, in    *)
(* ten-thousandths; weight: the sum of their weights, in hundredths) and   *)
(* by its last close.                                                      *)

\* a classification whose SELL test lost its minus sign
analyze_UnsignedSell(c, risk_key) ==
    LET tw  == IF c.weight = 0 THEN 100 ELSE c.weight
        ws  == c.score
        thr == signal_threshold(risk_key)
    IN  IF ws > thr * tw
        THEN [signal |-> "KAUFEN", score |-> ws, weight |-> tw,
              price |-> c.close, risk |-> risk_key,
              confidence |-> round(Min(100 * tw + ws, 190 * tw), 2 * tw)]
        ELSE IF ws < thr * tw
        THEN [signal |-> "VERKAUFEN", score |-> ws, weight |-> tw,
              price |-> c.close, risk |-> risk_key,
              confidence |-> round(Min(100 * tw + Abs(ws), 190 * tw), 2 * tw)]
        ELSE [signal |-> "ABWARTEN", score |-> ws, weight |-> tw,
              price |-> c.close, risk |-> risk_key,
              confidence |-> round(Max(380 * tw, 500 * tw - 7 * Abs(ws)),
                                   10 * tw)]

\* analyze(), lines 343-356: signal and confidence from the composite score
\* ws = score / tw (hundredths), compared and rounded exactly
analyze(c, risk_key) ==
    LET tw  == IF c.weight = 0 THEN 100 ELSE c.weight
        ws  == c.score
        thr == signal_threshold(risk_key)
    IN  IF ws > thr * tw
        THEN [signal |-> "KAUFEN", score |-> ws, weight |-> tw,
              price |-> c.close, risk |-> risk_key,
              confidence |-> round(Min(100 * tw + ws, 190 * tw), 2 * tw)]
        ELSE IF ws < -thr * tw
        THEN [signal |-> "VERKAUFEN", score |-> ws, weight |-> tw,
              price |-> c.close, risk |-> risk_key,
              confidence |-> round(Min(100 * tw + Abs(ws), 190 * tw), 2 * tw)]
        ELSE [signal |-> "ABWARTEN", score |-> ws, weight |-> tw,
              price |-> c.close, risk |-> risk_key,
              confidence |-> round(Max(380 * tw, 500 * tw - 7 * Abs(ws)),
                                   10 * tw)]

---------------------------------------------------------------------------
(* Indicators.  A series is a sequence with one entry per input value: an  *)
(* exact rational <<numerator, denominator>> (denominator > 0, lowest      *)
(* terms), or NULL where the source's list holds None.  Index i of the     *)
(* source (from 0) is index i + 1 here.                                    *)

RECURSIVE Gcd(_, _)
Gcd(a, b) == IF b = 0 THEN a ELSE Gcd(b, a % b)

Q(n, d) ==
    LET g == Gcd(Abs(n), Abs(d))
        k == IF d < 0 THEN -g ELSE g
    IN  <<n \div k, d \div k>>
QInt(n) == <<n, 1>>
QNeg(a) == <<-a[1], a[2]>>
QAdd(a, b) ==
    LET g == Gcd(a[2], b[2])
    IN  Q(a[1] * (b[2] \div g) + b[1] * (a[2] \div g), (a[2] \div g) * b[2])
QSub(a, b) == QAdd(a, QNeg(b))
QMul(a, b) ==
    LET g == Gcd(Abs(a[1]), b[2])
        h == Gcd(Abs(b[1]), a[2])
    IN  Q((a[1] \div g) * (b[1] \div h), (a[2] \div h) * (b[2] \div g))
QDiv(a, b) == QMul(a, Q(b[2], b[1]))
QLt(a, b) == a[1] * b[2] < b[1] * a[2]
QAbs(a) == <<Abs(a[1]), a[2]>>

\* sum(data[lo-1:hi]) of a sequence of rationals (exact, so in any order)
RECURSIVE QSum(_, _, _)
QSum(data, lo, hi) ==
    IF lo > hi THEN QInt(0)
    ELSE IF lo = hi THEN data[lo]
    ELSE LET mid == (lo + hi) \div 2
         IN  QAdd(QSum(data, lo, mid), QSum(data, mid + 1, hi))

\* [float(x) for x in ...]
QSeq(ints) == [i \in 1..Len(ints) |-> QInt(ints[i])]

\* r[i] of calc_ema for i >= period: the seed, then the recurrence
RECURSIVE ema_at(_, _, _)
ema_at(data, period, i) ==
    IF i = period
    THEN QDiv(QSum(data, 1, period), QInt(period))
    ELSE LET k    == Q(2, period + 1)
             prev == ema_at(data, period, i - 1)
         IN  IF prev = NULL THEN NULL
             ELSE QAdd(QMul(data[i], k), QMul(prev, QSub(QInt(1), k)))

\* calc_ema(data, period)
calc_ema(data, period) ==
    IF Len(data) < period
    THEN [i \in 1..Len(data) |-> NULL]
    ELSE [i \in 1..Len(data) |->
             IF i < period THEN NULL ELSE ema_at(data, period, i)]

\* calc_sma(data, period)
calc_sma(data, period) ==
    [i \in 1..Len(data) |->
        IF i < period THEN NULL
        ELSE QDiv(QSum(data, i - period + 1, i), QInt(period))]

\* next((v for v in reversed(lst[:i]) if v is not None), None)
RECURSIVE last_upto(_, _)
last_upto(lst, i) ==
    IF i = 0 THEN NULL
    ELSE IF lst[i] # NULL THEN lst[i]
    ELSE last_upto(lst, i - 1)

\* last(lst): the last entry that is not None, or None
last(lst) == last_upto(lst, Len(lst))

\* [a[i]-b[i] if a[i] is not None and b[i] is not None else None
\*  for i in range(n)] (b, defined at fewer places, is looked at first)
Difference(a, b, n) ==
    [i \in 1..n |->
        IF b[i] # NULL /\ a[i] # NULL THEN QSub(a[i], b[i]) ELSE NULL]

\* [v for v in ml if v is not None]
Defined(ml) == SelectSeq(ml, LAMBDA v : v # NULL)

\* calc_macd, lines 211-214: the value of si when the loop reaches entry i
\* of ml, the number of entries before it that are not None
RECURSIVE cursor(_, _)
cursor(ml, i) ==
    IF i = 1 THEN 0
    ELSE cursor(ml, i - 1) + (IF ml[i - 1] # NULL THEN 1 ELSE 0)

\* a signal line that reads the smoothed values at the input's own index
signal_line_SameIndex(ml, sr) ==
    [i \in 1..Len(ml) |->
        IF ml[i] = NULL THEN NULL
        ELSE IF i - 1 < Len(sr) THEN sr[i] ELSE NULL]

\* calc_macd, lines 211-214: the list sl the loop builds
signal_line(ml, sr) ==
    [i \in 1..Len(ml) |->
        IF ml[i] = NULL THEN NULL
        ELSE IF cursor(ml, i) < Len(sr) THEN sr[cursor(ml, i) + 1] ELSE NULL]

\* calc_macd(closes, fast, slow, sig) on a sequence of rationals
calc_macd(closes, fast, slow, sig) ==
    LET ef    == calc_ema(closes, fast)
        es    == calc_ema(closes, slow)
        ml    == Difference(ef, es, Len(closes))
        valid == Defined(ml)
        sr    == calc_ema(valid, sig)
        sl    == signal_line(ml, sr)
        hist  == Difference(ml, sl, Len(closes))
    IN  [ml |-> ml, sl |-> sl, hist |-> hist]

QMax(a, b) == IF QLt(a, b) THEN b ELSE a
QZero == QInt(0)

\* closes[i]-closes[i-1] at index i of the source (entry i + 1 here)
Delta(closes, i) == QSub(closes[i + 1], closes[i])

\* calc_rsi: <<ag, al>> when r[i] is assigned, i >= period
RECURSIVE rsi_avg(_, _, _)
rsi_avg(closes, period, i) ==
    IF i = period
    THEN LET up   == [j \in 1..period |-> QMax(Delta(closes, j), QZero)]
             down == [j \in 1..period |-> QMax(QNeg(Delta(closes, j)), QZero)]
         IN  <<QDiv(QSum(up, 1, period), QInt(period)),
               QDiv(QSum(down, 1, period), QInt(period))>>
    ELSE LET prev == rsi_avg(closes, period, i - 1)
             d    == Delta(closes, i)
         IN  IF prev = NULL THEN NULL
             ELSE <<QDiv(QAdd(QMul(prev[1], QInt(period - 1)), QMax(d, QZero)),
                         QInt(period)),
                    QDiv(QAdd(QMul(prev[2], QInt(period - 1)),
                              QMax(QNeg(d), QZero)),
                         QInt(period))>>

\* 100-100/(1+(float('inf') if al==0 else ag/al))
rsi_value(a) ==
    IF a[2] = QZero THEN QInt(100)
    ELSE QDiv(QMul(QInt(100), a[1]), QAdd(a[1], a[2]))

\* calc_rsi(closes, period)
calc_rsi(closes, period) ==
    [j \in 1..Len(closes) |->
        IF Len(closes) < period + 1 \/ j - 1 < period THEN NULL
        ELSE rsi_value(rsi_avg(closes, period, j - 1))]

\* calc_bollinger(closes, period, std_dev)["pct"].  An entry that is not
\* None is held as <<dev, var, k>>: the close minus the window's mean, the
\* window's variance (the square of std) and std_dev; the entry of the source
\* is 1/2 + dev / (2 * k * std), assigned where band_width = 2 * k * std > 0.
calc_bollinger(closes, period, std_dev) ==
    LET sma == calc_sma(closes, period)
    IN  [i \in 1..Len(closes) |->
            IF i < period THEN NULL
            ELSE LET mean == sma[i]
                     sq   == [j \in 1..period |->
                                LET x == QSub(closes[i - period + j], mean)
                                IN  QMul(x, x)]
                     var  == QDiv(QSum(sq, 1, period), QInt(period))
                 IN  IF std_dev > 0 /\ QLt(QZero, var)
                     THEN <<QSub(closes[i], mean), var, std_dev>>
                     ELSE NULL]

\* pct < t and pct > t for an entry of calc_bollinger: dev against
\* c * std with c = (2t - 1) * k, compared through the squares
pct_lt(pct, t) ==
    LET dev == pct[1]
        c   == QMul(QSub(QMul(QInt(2), t), QInt(1)), QInt(pct[3]))
        d2  == QMul(dev, dev)
        c2v == QMul(QMul(c, c), pct[2])
    IN  IF QLt(c, QZero)
        THEN QLt(dev, QZero) /\ QLt(c2v, d2)
        ELSE QLt(dev, QZero) \/ QLt(d2, c2v)
pct_gt(pct, t) ==
    LET dev == pct[1]
        c   == QMul(QSub(QMul(QInt(2), t), QInt(1)), QInt(pct[3]))
        d2  == QMul(dev, dev)
        c2v == QMul(QMul(c, c), pct[2])
    IN  IF QLt(c, QZero)
        THEN ~QLt(dev, QZero) \/ QLt(d2, c2v)
        ELSE QLt(QZero, dev) /\ QLt(c2v, d2)

\* calc_volume_signal(candles, period): Some(value in hundredths) or None
calc_volume_signal(cs, period) ==
    LET vols    == [i \in 1..Len(cs) |-> QInt(cs[i].volume)]
        avg_vol == calc_sma(vols, period)
    IN  [i \in 1..Len(cs) |->
            IF avg_vol[i] = NULL THEN NULL
            ELSE LET ratio == IF QLt(QZero, avg_vol[i])
                              THEN QDiv(vols[i], avg_vol[i]) ELSE QInt(1)
                     bull  == cs[i].close >= cs[i].open
                 IN  IF QLt(Q(3, 2), ratio)
                     THEN Some(IF bull THEN 80 ELSE -80)
                     ELSE IF QLt(Q(6, 5), ratio)
                     THEN Some(IF bull THEN 40 ELSE -40)
                     ELSE IF QLt(ratio, Q(3, 5)) THEN Some(0)
                     ELSE Some(IF bull THEN 20 ELSE -20)]

\* calc_sr: avg, the mean of the last three entries of a list, 0 if empty
sr_avg(lst) ==
    IF lst = <<>> THEN QZero
    ELSE LET lo == Max(1, Len(lst) - 2)
         IN  QDiv(QSum(lst, lo, Len(lst)), QInt(Len(lst) - lo + 1))

\* calc_sr(candles, lb): <<support, resistance>>
calc_sr(cs, lb) ==
    LET n    == Len(cs)
        mids == IF n > 2 * lb THEN [k \in 1..(n - 2 * lb) |-> k + lb]
                ELSE <<>>
        sup  == SelectSeq(mids, LAMBDA i :
                    \A j \in (i - lb)..(i + lb) : cs[i].low <= cs[j].low)
        res  == SelectSeq(mids, LAMBDA i :
                    \A j \in (i - lb)..(i + lb) : cs[i].high >= cs[j].high)
    IN  <<sr_avg([k \in 1..Len(sup) |-> QInt(cs[sup[k]].low)]),
          sr_avg([k \in 1..Len(res) |-> QInt(cs[res[k]].high)])>>

\* RISK_PROFILES[...]: the RSI bounds and the weights (hundredths) of a
\* profile; an unknown key gets "ausgewogen"
rsi_oversold(risk_key) ==
    CASE risk_key = "konservativ" -> 25
      [] risk_key = "aggressiv"   -> 45
      [] OTHER                    -> 35
rsi_overbought(risk_key) ==
    CASE risk_key = "konservativ" -> 75
      [] risk_key = "aggressiv"   -> 55
      [] OTHER                    -> 65
weights(risk_key) ==
    CASE risk_key = "konservativ" ->
            [RSI |-> 25, MACD |-> 18, EMA |-> 17, SMA |-> 18, SR |-> 12,
             BB |-> 5, VOL |-> 5]
      [] risk_key = "aggressiv" ->
            [RSI |-> 18, MACD |-> 25, EMA |-> 22, SMA |-> 9, SR |-> 13,
             BB |-> 7, VOL |-> 6]
      [] OTHER ->
            [RSI |-> 22, MACD |-> 22, EMA |-> 17, SMA |-> 13, SR |-> 13,
             BB |-> 7, VOL |-> 6]

\* scores.append({"name":...,"score":...,"weight":...}), score in hundredths
Component(name, score, weight) ==
    <<[name |-> name, score |-> score, weight |-> weight]>>

\* sum(x["score"]*x["weight"] for x in scores), sum(x["weight"] ...)
RECURSIVE weighted_sum(_)
weighted_sum(scores) ==
    IF scores = <<>> THEN 0
    ELSE Head(scores).score * Head(scores).weight + weighted_sum(Tail(scores))
RECURSIVE weight_sum(_)
weight_sum(scores) ==
    IF scores = <<>> THEN 0
    ELSE Head(scores).weight + weight_sum(Tail(scores))

\* analyze(), lines 283-294: the RSI component
rsi_score(rv, risk_key) ==
    LET os == rsi_oversold(risk_key)
        ob == rsi_overbought(risk_key)
    IN  IF QLt(rv, QInt(os - 10)) THEN 100
        ELSE IF QLt(rv, QInt(os)) THEN 70
        ELSE IF QLt(QInt(ob + 10), rv) THEN -100
        ELSE IF QLt(QInt(ob), rv) THEN -70
        ELSE IF QLt(rv, QInt(48)) THEN 20
        ELSE IF QLt(QInt(52), rv) THEN -20
        ELSE 0

\* analyze(), lines 296-302: the MACD component
macd_score(mv, sv, hv) ==
    LET damped == hv # NULL /\ QLt(QAbs(hv), QMul(QAbs(mv), Q(5, 100)))
    IN  IF QLt(sv, mv) THEN (IF damped THEN 28 ELSE 80)
        ELSE (IF damped THEN -28 ELSE -80)

\* analyze(), lines 316-321: the S/R component
sr_score(price, support, resistance) ==
    LET pos == QDiv(QSub(price, support), QSub(resistance, support))
    IN  IF QLt(pos, Q(2, 10)) THEN 85
        ELSE IF QLt(Q(8, 10), pos) THEN -85
        ELSE IF QLt(pos, Q(5, 10)) THEN 25
        ELSE -25

\* analyze(), lines 323-333: the Bollinger component
bb_score(bb_pct) ==
    IF pct_lt(bb_pct, Q(1, 10)) THEN 90
    ELSE IF pct_lt(bb_pct, Q(2, 10)) THEN 50
    ELSE IF pct_gt(bb_pct, Q(9, 10)) THEN -90
    ELSE IF pct_gt(bb_pct, Q(8, 10)) THEN -50
    ELSE 0

\* analyze(), lines 345-346: the mean of the squared returns of the last 20
\* steps (volatility is 100 times its square root), 0 without a step
volatility2(closes) ==
    LET n    == Len(closes)
        lo   == Max(1, n - 20)
        rets == [k \in 1..(n - lo) |->
                    LET r == QDiv(Delta(closes, lo + k - 1), closes[lo + k - 1])
                    IN  QMul(r, r)]
    IN  IF n - lo <= 0 THEN QZero
        ELSE QDiv(QSum(rets, 1, n - lo), QInt(n - lo))

\* analyze(), lines 266-346: the components that fire on the candles cs and
\* what they add up to
indicators(cs, risk_key) ==
    LET W      == weights(risk_key)
        closes == QSeq([i \in 1..Len(cs) |-> cs[i].close])
        price  == closes[Len(closes)]
        rv     == last(calc_rsi(closes, 14))
        macd   == calc_macd(closes, 12, 26, 9)
        mv     == last(macd.ml)
        sv     == last(macd.sl)
        hv     == last(macd.hist)
        e20    == last(calc_ema(closes, 20))
        e50    == last(calc_ema(closes, 50))
        s200   == last(calc_sma(closes, Min(200, Len(closes))))
        sr     == calc_sr(cs, 5)
        bb_pct == last(calc_bollinger(closes, 20, 2))
        vs     == last(calc_volume_signal(cs, 20))
        scores ==
            (IF rv # NULL
             THEN Component("RSI", rsi_score(rv, risk_key), W.RSI) ELSE <<>>)
            \o (IF mv # NULL /\ sv # NULL
                THEN Component("MACD", macd_score(mv, sv, hv), W.MACD)
                ELSE <<>>)
            \o (IF e20 # NULL /\ e50 # NULL
                THEN Component("EMA20/50", IF QLt(e50, e20) THEN 70 ELSE -70,
                               W.EMA)
                ELSE <<>>)
            \o (IF s200 # NULL
                THEN Component("SMA200", IF QLt(s200, price) THEN 60 ELSE -60,
                               W.SMA)
                ELSE <<>>)
            \o (IF sr[1] # QZero /\ sr[2] # QZero /\ QLt(sr[1], sr[2])
                THEN Component("S/R Zone", sr_score(price, sr[1], sr[2]), W.SR)
                ELSE <<>>)
            \o (IF bb_pct # NULL
                THEN Component("Bollinger", bb_score(bb_pct), W.BB) ELSE <<>>)
            \o (IF vs # NULL THEN Component("Volumen", Val(vs), W.VOL) ELSE <<>>)
    IN  CHOOSE r \in
            {[score |-> weighted_sum(s), weight |-> weight_sum(s),
              close |-> cs[Len(cs)].close, scores |-> s, rsi |-> rv,
              volatility2 |-> volatility2(closes)] : s \in {scores}} : TRUE

\* analyze(candles, risk_key): the dict returned (of its entries, signal,
\* confidence, score, scores, volatility, price, rsi and risk)
analyze_candles(cs, risk_key) ==
    CHOOSE r \in
        {analyze(c, risk_key)
            @@ [scores |-> c.scores, rsi |-> c.rsi,
                volatility2 |-> c.volatility2] :
         c \in {indicators(cs, risk_key)}} : TRUE

\* the test without its confidence part
Actionable_AnyConfidence(res) == res.signal # "ABWARTEN"

\* res["signal"]!="ABWARTEN" and res["confidence"]>=CONFIDENCE_THRESHOLD
Actionable(res) ==
    res.signal # "ABWARTEN" /\ res.confidence >= CONFIDENCE_THRESHOLD

\* composite scores (all seven components fired, so the weights add up to
\* 1.00) and closes of the candle histories a fetch may return
Scores == {-6000, 0, 4000, 6000}
Closes == {1000}
CandleInputs == [score : Scores, weight : {100}, close : Closes]

\* prices the ticker may return
ExitPrices == {970, 1030}

---------------------------------------------------------------------------
(* Evaluator. *)

\* the evaluation without the stop-loss cap on the P&L
Evaluation_NoStopLoss(signal, entry_price, exit) ==
    LET ret == ((exit - entry_price) * 100000) \div entry_price
        sl_hit ==
            IF signal = "KAUFEN"
            THEN exit * 100000 <= entry_price * (100000 - STOP_LOSS_PCT)
            ELSE IF signal = "VERKAUFEN"
            THEN exit * 100000 >= entry_price * (100000 + STOP_LOSS_PCT)
            ELSE FALSE
        tp_hit ==
            IF signal = "KAUFEN"
            THEN exit * 100000 >= entry_price * (100000 + TAKE_PROFIT_PCT)
            ELSE IF signal = "VERKAUFEN"
            THEN exit * 100000 <= entry_price * (100000 - TAKE_PROFIT_PCT)
            ELSE FALSE
        outcome ==
            IF signal = "KAUFEN"
            THEN IF ret > 300 THEN "KORREKT"
                 ELSE IF ret < -300 THEN "FALSCH" ELSE "NEUTRAL"
            ELSE IF signal = "VERKAUFEN"
            THEN IF ret < -300 THEN "KORREKT"
                 ELSE IF ret > 300 THEN "FALSCH" ELSE "NEUTRAL"
            ELSE "NEUTRAL"
        pnl0 ==
            IF signal = "KAUFEN" THEN (TRADE_SIZE_USDT * ret) \div 1000
            ELSE IF signal = "VERKAUFEN" THEN (TRADE_SIZE_USDT * (-ret)) \div 1000
            ELSE 0
        pnl1 == pnl0
        pnl  == IF tp_hit THEN (TRADE_SIZE_USDT * TAKE_PROFIT_PCT) \div 1000
                ELSE pnl1
    IN  [ret |-> ret, outcome |-> outcome,
         sl_hit |-> IF sl_hit THEN 1 ELSE 0,
         tp_hit |-> IF tp_hit THEN 1 ELSE 0, pnl |-> pnl]

\* evaluate_with_sl_tp(), lines 368-397: what is written for a sampled price
Evaluation(signal, entry_price, exit) ==
    LET ret == ((exit - entry_price) * 100000) \div entry_price
        sl_hit ==
            IF signal = "KAUFEN"
            THEN exit * 100000 <= entry_price * (100000 - STOP_LOSS_PCT)
            ELSE IF signal = "VERKAUFEN"
            THEN exit * 100000 >= entry_price * (100000 + STOP_LOSS_PCT)
            ELSE FALSE
        tp_hit ==
            IF signal = "KAUFEN"
            THEN exit * 100000 >= entry_price * (100000 + TAKE_PROFIT_PCT)
            ELSE IF signal = "VERKAUFEN"
            THEN exit * 100000 <= entry_price * (100000 - TAKE_PROFIT_PCT)
            ELSE FALSE
        outcome ==
            IF signal = "KAUFEN"
            THEN IF ret > 300 THEN "KORREKT"
                 ELSE IF ret < -300 THEN "FALSCH" ELSE "NEUTRAL"
            ELSE IF signal = "VERKAUFEN"
            THEN IF ret < -300 THEN "KORREKT"
                 ELSE IF ret > 300 THEN "FALSCH" ELSE "NEUTRAL"
            ELSE "NEUTRAL"
        pnl0 ==
            IF signal = "KAUFEN" THEN (TRADE_SIZE_USDT * ret) \div 1000
            ELSE IF signal = "VERKAUFEN" THEN (TRADE_SIZE_USDT * (-ret)) \div 1000
            ELSE 0
        pnl1 == IF sl_hit THEN -((TRADE_SIZE_USDT * STOP_LOSS_PCT) \div 1000)
                ELSE pnl0
        pnl  == IF tp_hit THEN (TRADE_SIZE_USDT * TAKE_PROFIT_PCT) \div 1000
                ELSE pnl1
    IN  [ret |-> ret, outcome |-> outcome,
         sl_hit |-> IF sl_hit THEN 1 ELSE 0,
         tp_hit |-> IF tp_hit THEN 1 ELSE 0, pnl |-> pnl]

\* an update that passes the two flags in the other order
Evaluated_FlagsSwapped(row, exit) ==
    LET e == Evaluation(row.signal, row.entry_price, exit)
    IN  mark_evaluated(row.id, exit, e.ret, e.outcome, e.tp_hit, e.sl_hit, e.pnl)

\* the table after evaluate_with_sl_tp(row) sampled the price exit
Evaluated(row, exit) ==
    LET e == Evaluation(row.signal, row.entry_price, exit)
    IN  mark_evaluated(row.id, exit, e.ret, e.outcome, e.sl_hit, e.tp_hit, e.pnl)

---------------------------------------------------------------------------
(* Control loop, main(). *)

Symbols == {MARKETS[i] : i \in 1..NumMarkets}

\* what fetch_price / fetch_candles may return: a value, or None on any error
PriceResults == {NULL} \cup {Some(x) : x \in ExitPrices}
CandleResults == {NULL} \cup {Some(x) : x \in CandleInputs}

Init ==
    /\ clock = 0
    /\ forecasts = <<>>
    /\ sent = 0
    /\ last_alert = [s \in Symbols |-> NULL]
    /\ now = 0
    /\ pending = <<>>
    /\ result = NULL
    /\ mi = 1
    /\ candles = NULL
    /\ pc = "loop"
    /\ pending2 = <<>>
    /\ pc2 = "loop"
    /\ history = NULL
    /\ analysis = NULL
    /\ macd_in = NULL
    /\ macd_v = NULL
    /\ wall = 0
    /\ daily_summary = {}
    /\ summaries = <<>>

\* now = datetime.now(); for row in get_pending()
LoopTop ==
    /\ pc = "loop"
    /\ now' = clock
    /\ \E rows \in get_pending(clock) : pending' = rows
    /\ pc' = "eval"
    /\ UNCHANGED <<clock, forecasts, sent, last_alert, result, mi, candles>>
    /\ UNCHANGED secondVars
    /\ UNCHANGED restVars

\* an evaluate that, without a price, closes the forecast at its entry price
evaluate_with_sl_tp_ClosesOnFailure(row, p) ==
    IF p = NULL
    THEN [table |-> Evaluated(row, row.entry_price), value |-> NULL]
    ELSE [table |-> Evaluated(row, Val(p)),
          value |-> Some(Evaluation(row.signal, row.entry_price, Val(p)))]

\* evaluate_with_sl_tp(row) when fetch_price returns p: the table afterwards
\* and the value returned (None, or the evaluation)
evaluate_with_sl_tp(row, p) ==
    IF p = NULL
    THEN [table |-> forecasts, value |-> NULL]
    ELSE [table |-> Evaluated(row, Val(p)),
          value |-> Some(Evaluation(row.signal, row.entry_price, Val(p)))]

\* one pass of the sweep's body, on the next row of the snapshot: evaluate,
\* and report if there is a result
SweepRow(p) ==
    /\ pc = "eval"
    /\ pending # <<>>
    /\ LET r == evaluate_with_sl_tp(Head(pending), p)
       IN  /\ forecasts' = r.table
           /\ result' = r.value
           /\ sent' = IF r.value # NULL THEN sent + 1 ELSE sent
    /\ pending' = Tail(pending)
    /\ UNCHANGED <<clock, last_alert, now, mi, candles, pc>>
    /\ UNCHANGED secondVars
    /\ UNCHANGED restVars

\* the sweep is over: the scan starts with the first market (result is not
\* read again before it is assigned, so its value is dropped here)
SweepDone ==
    /\ pc = "eval"
    /\ pending = <<>>
    /\ result' = NULL
    /\ mi' = 1
    /\ pc' = "scan"
    /\ UNCHANGED <<clock, forecasts, sent, last_alert, now, pending, candles>>
    /\ UNCHANGED secondVars
    /\ UNCHANGED restVars

\* sym in last_alert and elapsed < COOLDOWN_MINUTES
InCooldown(sym) ==
    /\ last_alert[sym] # NULL
    /\ (now - Val(last_alert[sym])) * 60 < COOLDOWN_MINUTES

\* the market is in its cooldown: continue
ScanCooldown ==
    /\ pc = "scan"
    /\ mi <= NumMarkets
    /\ InCooldown(MARKETS[mi])
    /\ mi' = mi + 1
    /\ UNCHANGED <<clock, forecasts, sent, last_alert, now, pending, result,
                   candles, pc>>
    /\ UNCHANGED secondVars
    /\ UNCHANGED restVars

\* a scan body that starts the cooldown before it looks at the candles
scan_market_CooldownOnFailure(sym, c, d) ==
    IF c = NULL
    THEN /\ last_alert' = [last_alert EXCEPT ![sym] = Some(now)]
         /\ UNCHANGED <<clock, forecasts, sent>>
    ELSE LET res == analyze(Val(c), RISK_PROFILE)
         IN  IF Actionable(res)
             THEN /\ forecasts' = Append(forecasts,
                         save_forecast(sym, res.signal, res.confidence,
                                       res.price, RISK_PROFILE,
                                       clock, Later(d)))
                  /\ clock' = Later(d)
                  /\ sent' = sent + 1
                  /\ last_alert' = [last_alert EXCEPT ![sym] = Some(now)]
             ELSE UNCHANGED <<clock, forecasts, sent, last_alert>>

\* the scan's body for a market out of cooldown once fetch_candles returned
\* c.  None: continue; else analyze, and on an actionable signal save the
\* forecast (d hours pass inside save_forecast), alert, start the cooldown
scan_market(sym, c, d) ==
    IF c = NULL
    THEN UNCHANGED <<clock, forecasts, sent, last_alert>>
    ELSE LET res == analyze(Val(c), RISK_PROFILE)
         IN  IF Actionable(res)
             THEN /\ forecasts' = Append(forecasts,
                         save_forecast(sym, res.signal, res.confidence,
                                       res.price, RISK_PROFILE,
                                       clock, Later(d)))
                  /\ clock' = Later(d)
                  /\ sent' = sent + 1
                  /\ last_alert' = [last_alert EXCEPT ![sym] = Some(now)]
             ELSE UNCHANGED <<clock, forecasts, sent, last_alert>>

ScanMarket(c, d) ==
    /\ pc = "scan"
    /\ mi <= NumMarkets
    /\ ~InCooldown(MARKETS[mi])
    /\ IF c # NULL /\ Actionable(analyze(Val(c), RISK_PROFILE))
       THEN Len(forecasts) < MaxForecasts
       ELSE d = 0
    /\ candles' = c
    /\ scan_market(MARKETS[mi], c, d)
    /\ mi' = mi + 1
    /\ UNCHANGED <<now, pending, result, pc>>
    /\ UNCHANGED secondVars
    /\ UNCHANGED restVars

\* every market was visited: time.sleep(SCAN_INTERVAL) (candles is not read
\* again before it is assigned, so its value is dropped here)
Sleep ==
    /\ pc = "scan"
    /\ mi > NumMarkets
    /\ clock' = Later(SCAN_INTERVAL \div 3600)
    /\ candles' = NULL
    /\ pc' = "loop"
    /\ UNCHANGED <<forecasts, sent, last_alert, now, pending, result, mi>>
    /\ UNCHANGED secondVars
    /\ UNCHANGED restVars

\* time passes while the loop is blocked in a request or asleep
Tick ==
    /\ clock < MaxTime
    /\ clock' = clock + 1
    /\ UNCHANGED <<forecasts, sent>>
    /\ UNCHANGED mainVars
    /\ UNCHANGED secondVars
    /\ UNCHANGED restVars

Next ==
    \/ LoopTop
    \/ \E p \in PriceResults : SweepRow(p)
    \/ SweepDone
    \/ ScanCooldown
    \/ \E c \in CandleResults, d \in Delays : ScanMarket(c, d)
    \/ Sleep
    \/ Tick

Spec == Init /\ [][Next]_vars

---------------------------------------------------------------------------
(* A second evaluator on the same backtest.db (a second bot process, or a  *)
(* repeated sweep): it runs the sweep of main, lines 700-708, on its own   *)
(* snapshot of get_pending().                                              *)

LoopTop2 ==
    /\ pc2 = "loop"
    /\ \E rows \in get_pending(clock) : pending2' = rows
    /\ pc2' = "eval"
    /\ UNCHANGED <<clock, forecasts, sent>>
    /\ UNCHANGED mainVars
    /\ UNCHANGED restVars

SweepRow2(p) ==
    /\ pc2 = "eval"
    /\ pending2 # <<>>
    /\ LET r == evaluate_with_sl_tp(Head(pending2), p)
       IN  /\ forecasts' = r.table
           /\ sent' = IF r.value # NULL THEN sent + 1 ELSE sent
    /\ pending2' = Tail(pending2)
    /\ UNCHANGED <<clock, pc2>>
    /\ UNCHANGED mainVars
    /\ UNCHANGED restVars

SweepDone2 ==
    /\ pc2 = "eval"
    /\ pending2 = <<>>
    /\ pc2' = "loop"
    /\ UNCHANGED <<clock, forecasts, sent, pending2>>
    /\ UNCHANGED mainVars
    /\ UNCHANGED restVars

Next2 ==
    \/ LoopTop2
    \/ \E p \in PriceResults : SweepRow2(p)
    \/ SweepDone2

SpecConcurrent == Init /\ [][Next \/ Next2]_vars

---------------------------------------------------------------------------
(* The control loop under fair scheduling: main is one sequential thread  *)
(* whose requests time out, so it always takes its next step, and a price *)
(* fetch that is retried for ever does not fail for ever.                 *)

LoopStep ==
    \/ LoopTop
    \/ \E p \in PriceResults : SweepRow(p)
    \/ SweepDone
    \/ ScanCooldown
    \/ \E c \in CandleResults, d \in Delays : ScanMarket(c, d)
    \/ Sleep

PriceArrives(fid) ==
    \E x \in ExitPrices : SweepRow(Some(x)) /\ Head(pending).id = fid

FairSpec ==
    /\ Spec
    /\ WF_vars(LoopStep)
    /\ \A fid \in 1..MaxForecasts : SF_vars(PriceArrives(fid))

---------------------------------------------------------------------------
(* The evaluator alone, on one forecast and a wider range of sampled       *)
(* prices: a forecast is stored at an entry price, then evaluated once at  *)
(* an exit price given as a level (thousandths of the entry price).        *)

EntryPrices == {1000, 2000}
Levels == {900, 950, 960, 969, 970, 971, 984, 985, 986, 990, 996, 997, 998,
           1000, 1002, 1003, 1004, 1010, 1014, 1015, 1016, 1029, 1030, 1031,
           1040, 1050, 1100}

EvalCreate(signal, entry) ==
    /\ forecasts = <<>>
    /\ forecasts' = <<save_forecast(MARKETS[1], signal, CONFIDENCE_THRESHOLD,
                                    entry, RISK_PROFILE, clock, clock)>>
    /\ UNCHANGED <<clock, sent>>
    /\ UNCHANGED mainVars
    /\ UNCHANGED secondVars
    /\ UNCHANGED restVars

EvalApply(level) ==
    /\ forecasts # <<>>
    /\ forecasts[1].evaluated = 0
    /\ LET row == Row(forecasts[1])
           r   == evaluate_with_sl_tp(row,
                      Some((row.entry_price * level) \div 1000))
       IN  forecasts' = r.table
    /\ UNCHANGED <<clock, sent>>
    /\ UNCHANGED mainVars
    /\ UNCHANGED secondVars
    /\ UNCHANGED restVars

EvalNext ==
    \/ \E signal \in {"KAUFEN", "VERKAUFEN"}, entry \in EntryPrices :
          EvalCreate(signal, entry)
    \/ \E level \in Levels : EvalApply(level)

EvalSpec == Init /\ [][EvalNext]_vars

---------------------------------------------------------------------------
(* The classification alone, for every risk profile and a grid of          *)
(* composite scores from -1.00 to 1.00.                                    *)

RiskKeys == {"konservativ", "ausgewogen", "aggressiv"}
ScoreGrid == {s * 100 : s \in -100..100}
ClassifyInputs == [score : ScoreGrid, weight : {100}, close : Closes]

Classify(c, risk_key) ==
    /\ analysis' = Some(analyze(c, risk_key))
    /\ UNCHANGED <<clock, forecasts, sent, history>>
    /\ UNCHANGED mainVars
    /\ UNCHANGED secondVars
    /\ UNCHANGED macdVars
    /\ UNCHANGED summaryVars

ClassifyNext ==
    \E c \in ClassifyInputs, risk_key \in RiskKeys : Classify(c, risk_key)

ClassifySpec == Init /\ [][ClassifyNext]_vars

---------------------------------------------------------------------------
(* calc_macd alone.  With short periods it is given every close sequence   *)
(* over two prices up to MaxCloses values; with its default periods 12,    *)
(* 26, 9 it is given sequences up to MaxFlat values that are flat but for  *)
(* a step in the last two places (their averages stay small fractions).   *)

ShortPeriods == {<<1, 2, 2>>, <<2, 3, 2>>, <<2, 4, 3>>}
ShortCloses == UNION {[1..n -> {1, 2}] : n \in 0..MaxCloses}
FlatCloses ==
    {[i \in 1..n |-> IF i + m > n THEN 4 ELSE 3] : n \in 0..MaxFlat, m \in 0..2}

MacdInputs ==
    {[closes |-> c, fast |-> p[1], slow |-> p[2], sig |-> p[3]] :
        c \in ShortCloses, p \in ShortPeriods}
    \cup {[closes |-> c, fast |-> 12, slow |-> 26, sig |-> 9] : c \in FlatCloses}

Macd(in) ==
    /\ macd_v = NULL
    /\ macd_in' = Some(in)
    /\ macd_v' = Some(calc_macd(QSeq(in.closes), in.fast, in.slow, in.sig))
    /\ UNCHANGED <<clock, forecasts, sent>>
    /\ UNCHANGED mainVars
    /\ UNCHANGED secondVars
    /\ UNCHANGED analysisVars
    /\ UNCHANGED summaryVars

MacdNext == \E in \in MacdInputs : Macd(in)

MacdSpec == Init /\ [][MacdNext]_vars

---------------------------------------------------------------------------
(* analyze alone, from the candles to the result.  It is given every       *)
(* history of 1..MaxHistory candles that stays at one of two closes or     *)
(* steps once from one to the other, under each risk profile.              *)

\* a candle as fetch_candles builds it, here with open = high = low = close
Candle(p) == [open |-> p, high |-> p, low |-> p, close |-> p, volume |-> 1]

HistoryCloses == {100, 101}
Histories ==
    {[i \in 1..n |-> Candle(IF i <= k THEN a ELSE b)] :
        n \in 1..MaxHistory, k \in 0..MaxHistory,
        a \in HistoryCloses, b \in HistoryCloses}

Analyze(cs, risk_key) ==
    /\ analysis = NULL
    /\ history' = Some(cs)
    /\ analysis' = Some(analyze_candles(cs, risk_key))
    /\ UNCHANGED <<clock, forecasts, sent>>
    /\ UNCHANGED mainVars
    /\ UNCHANGED secondVars
    /\ UNCHANGED macdVars
    /\ UNCHANGED summaryVars

AnalyzeNext == \E cs \in Histories, risk_key \in RiskKeys : Analyze(cs, risk_key)

AnalyzeSpec == Init /\ [][AnalyzeNext]_vars

---------------------------------------------------------------------------
(* The daily summary of the control loop, main() lines 710-714, cycle by   *)
(* cycle on a clock of minutes.  Here the loop runs at the default         *)
(* SCAN_INTERVAL of 300 s, so that two cycles of a day can fall into the   *)
(* six minutes in which the summary is due.                                *)

\* SCAN_INTERVAL at its default, in minutes
ScanMinutes == 5

\* now.strftime("%Y-%m-%d"), now.hour, now.minute
strftime_date(t) == t \div 1440
hour(t) == (t % 1440) \div 60
minute(t) == t % 60

\* SELECT sent FROM daily_summary WHERE date=? ... row and row[0] == 1
was_summary_sent(date_str) == date_str \in daily_summary

\* INSERT OR REPLACE INTO daily_summary (date,sent) VALUES (?,1)
mark_summary_sent(date_str) == daily_summary \cup {date_str}

\* now.hour==DAILY_SUMMARY_HOUR and now.minute<6 and not was_summary_sent(..)
SummaryDue(t) ==
    /\ hour(t) = DAILY_SUMMARY_HOUR
    /\ minute(t) < 6
    /\ ~was_summary_sent(strftime_date(t))

\* a summary step that records the date whatever send_telegram returned
summary_step_MarkAlways(t, ok) ==
    IF SummaryDue(t)
    THEN [table |-> mark_summary_sent(strftime_date(t)),
          calls |-> Append(summaries,
                           [date |-> strftime_date(t), delivered |-> ok])]
    ELSE [table |-> daily_summary, calls |-> summaries]

\* main(), lines 710-714, in the cycle that started at t, when send_telegram
\* would return ok: the table and the calls made afterwards
summary_step(t, ok) ==
    IF SummaryDue(t)
    THEN [table |-> IF ok THEN mark_summary_sent(strftime_date(t))
                    ELSE daily_summary,
          calls |-> Append(summaries,
                           [date |-> strftime_date(t), delivered |-> ok])]
    ELSE [table |-> daily_summary, calls |-> summaries]

\* one cycle of the loop as far as the summary goes: now = datetime.now(),
\* the summary step, then the scan and time.sleep(SCAN_INTERVAL)
SummaryCycle(ok, lag) ==
    /\ wall + ScanMinutes + lag < MaxDays * 1440
    /\ LET r == summary_step(wall, ok)
       IN  /\ daily_summary' = r.table
           /\ summaries' = r.calls
    /\ wall' = wall + ScanMinutes + lag
    /\ UNCHANGED <<clock, forecasts, sent>>
    /\ UNCHANGED mainVars
    /\ UNCHANGED secondVars
    /\ UNCHANGED analysisVars
    /\ UNCHANGED macdVars

SummaryNext == \E ok \in BOOLEAN, lag \in 0..MaxLag : SummaryCycle(ok, lag)

SummarySpec == Init /\ [][SummaryNext]_vars

---------------------------------------------------------------------------
(* Properties. *)

Ids == 1..Len(forecasts)
createdAt(f) == fromisoformat(f.created_at)
evalAt(f) == fromisoformat(f.eval_at)

\* C1: evaluation is idempotent: once a forecast is EVALUATED no later
\* invocation of evaluate changes any field of its record.
C1_EvaluatedOnce ==
    [][\A i \in Ids :
          forecasts[i].evaluated = 1 => forecasts'[i] = forecasts[i]]_vars

\* C2: every stored forecast has evalAt > createdAt and evalAt - createdAt
\* equal to the evaluation horizon exactly.
C2_HorizonExact ==
    \A i \in Ids :
        /\ evalAt(forecasts[i]) > createdAt(forecasts[i])
        /\ evalAt(forecasts[i]) - createdAt(forecasts[i]) = EVAL_HOURS

\* C3: no forecast is evaluated (PENDING -> EVALUATED) at a time earlier than
\* its evalAt.
C3_NotBeforeEvalAt ==
    [][\A i \in Ids :
          (forecasts[i].evaluated = 0 /\ forecasts'[i].evaluated = 1)
              => evalAt(forecasts[i]) <= clock]_vars

\* C3 witness: a forecast has been evaluated while another, not yet due, is
\* still pending.
C3_Witness ==
    /\ \E i \in Ids : forecasts[i].evaluated = 1
    /\ \E j \in Ids : forecasts[j].evaluated = 0 /\ evalAt(forecasts[j]) > clock

\* C4: the due query returns exactly the PENDING forecasts with evalAt <= now,
\* oldest created first, and the sweep evaluates them in that order: when a
\* forecast is evaluated, no row still waiting in the sweep is older.
C4_DueQueryFifo ==
    /\ [](\A k, l \in 1..Len(pending) :
             k < l => createdAt(pending[k]) <= createdAt(pending[l]))
    /\ [][/\ (pc = "loop" /\ pc' = "eval") =>
                LET due == {i \in Ids : /\ forecasts[i].evaluated = 0
                                        /\ evalAt(forecasts[i]) <= clock}
                IN  /\ {pending'[k].id : k \in 1..Len(pending')} = due
                    /\ Len(pending') = Cardinality(due)
          /\ \A i \in Ids :
                (forecasts[i].evaluated = 0 /\ forecasts'[i].evaluated = 1)
                    => \A k \in 1..Len(pending') :
                          createdAt(forecasts[i]) <= createdAt(pending'[k])]_vars

\* C4 witness: in a sweep over two due forecasts created at different times
\* the older one has been evaluated and the newer one is the next row.
C4_Witness ==
    /\ pc = "eval"
    /\ Len(pending) = 1
    /\ \E i \in Ids :
          /\ forecasts[i].evaluated = 1
          /\ createdAt(forecasts[i]) < createdAt(pending[1])

\* C5: in every state and for every forecast, outcome is defined if and only
\* if the forecast is EVALUATED, and then is one of KORREKT, FALSCH, NEUTRAL.
C5_OutcomeIffEvaluated ==
    \A i \in Ids :
        /\ (forecasts[i].outcome # NULL) <=> (forecasts[i].evaluated = 1)
        /\ forecasts[i].evaluated \in {0, 1}
        /\ forecasts[i].outcome # NULL =>
              Val(forecasts[i].outcome) \in {"KORREKT", "FALSCH", "NEUTRAL"}

\* C5 witness: the table holds an evaluated and a pending forecast.
C5_Witness ==
    /\ \E i \in Ids : forecasts[i].evaluated = 1 /\ forecasts[i].outcome # NULL
    /\ \E j \in Ids : forecasts[j].evaluated = 0 /\ forecasts[j].outcome = NULL

\* the cooldown test of the scan, on the cycle's start time
CoolingDown(sym) ==
    /\ last_alert[sym] # NULL
    /\ (now - Val(last_alert[sym])) * 60 < COOLDOWN_MINUTES

\* C6: a forecast is created only for a BUY or SELL signal (never HOLD) with
\* confidence >= the minimum and for the scanned symbol out of its cooldown;
\* so every stored forecast is BUY or SELL with confidence >= the minimum.
C6_CreatedOnlyWhenActionable ==
    /\ [](\A i \in Ids :
             /\ forecasts[i].signal \in {"KAUFEN", "VERKAUFEN"}
             /\ forecasts[i].confidence >= CONFIDENCE_THRESHOLD)
    /\ [][Len(forecasts') > Len(forecasts) =>
             LET f == forecasts'[Len(forecasts')]
             IN  /\ Len(forecasts') = Len(forecasts) + 1
                 /\ pc = "scan" /\ mi \in 1..NumMarkets
                 /\ f.symbol = MARKETS[mi]
                 /\ ~CoolingDown(f.symbol)
                 /\ f.signal \in {"KAUFEN", "VERKAUFEN"}
                 /\ f.confidence >= CONFIDENCE_THRESHOLD
                 /\ \E c \in CandleInputs :
                       /\ candles' = Some(c)
                       /\ analyze(c, RISK_PROFILE).signal = f.signal
                       /\ analyze(c, RISK_PROFILE).confidence = f.confidence]_vars

\* C6 witness: a forecast is stored, the last history analysed gave a BUY
\* below the minimum confidence and stored nothing, and the next market is
\* skipped for its cooldown.
C6_Witness ==
    /\ forecasts # <<>>
    /\ pc = "scan" /\ mi \in 1..NumMarkets
    /\ CoolingDown(MARKETS[mi])
    /\ candles # NULL
    /\ analyze(Val(candles), RISK_PROFILE).signal = "KAUFEN"
    /\ analyze(Val(candles), RISK_PROFILE).confidence < CONFIDENCE_THRESHOLD

\* C7: any two forecasts stored for the same symbol have createdAt
\* timestamps at least the cooldown window apart.
C7_CooldownBetweenForecasts ==
    \A i, j \in Ids :
        (i < j /\ forecasts[i].symbol = forecasts[j].symbol)
            => (createdAt(forecasts[j]) - createdAt(forecasts[i])) * 60
                   >= COOLDOWN_MINUTES

\* C8: when the candle fetch of a scanned market fails, no forecast is
\* inserted or modified, no alert is sent, the cooldown timestamps are
\* unchanged, and the scan goes on with the next market.
C8_FetchFailureNoEffect ==
    [][(/\ pc = "scan" /\ mi \in 1..NumMarkets
        /\ ~CoolingDown(MARKETS[mi])
        /\ mi' # mi
        /\ candles' = NULL)
          => /\ forecasts' = forecasts
             /\ sent' = sent
             /\ last_alert' = last_alert
             /\ pc' = "scan"
             /\ mi' = mi + 1]_vars

\* C8 witness: forecasts are stored, the fetch for the first market (never
\* alerted, so not skipped) has just failed and the second market is next.
C8_Witness ==
    /\ pc = "scan"
    /\ mi = 2
    /\ candles = NULL
    /\ last_alert[MARKETS[1]] = NULL
    /\ forecasts # <<>>

\* a forecast that the due query has to return now
DueNow(i) ==
    /\ i \in Ids
    /\ forecasts[i].evaluated = 0
    /\ evalAt(forecasts[i]) <= clock

\* C9: when the price fetch fails for a due forecast, evaluate returns no
\* result, the table is unchanged, the forecast is not retried in the same
\* sweep while the rest of the sweep goes on, the next cycle's due query
\* returns it again, and it is eventually evaluated.
C9_PriceFailureDeferred ==
    /\ [][/\ (/\ pc = "eval" /\ pending # <<>>
              /\ pending' # pending
              /\ result' = NULL)
                => /\ forecasts' = forecasts
                   /\ sent' = sent
                   /\ DueNow(Head(pending).id)
                   /\ pc' = "eval"
                   /\ pending' = Tail(pending)
                   /\ \A k \in 1..Len(pending') :
                         pending'[k].id # Head(pending).id
          /\ (pc = "loop" /\ pc' = "eval")
                => \A i \in Ids :
                      DueNow(i) => \E k \in 1..Len(pending') : pending'[k].id = i]_vars
    /\ \A i \in 1..MaxForecasts :
          DueNow(i) ~> (i \in Ids /\ forecasts[i].evaluated = 1)

\* C9 witness: of two forecasts due in the same sweep the older one is still
\* pending, its price fetch having failed, and the newer one is evaluated.
C9_Witness ==
    \E i, j \in Ids :
        /\ createdAt(forecasts[i]) < createdAt(forecasts[j])
        /\ evalAt(forecasts[i]) <= evalAt(forecasts[j])
        /\ forecasts[i].evaluated = 0
        /\ forecasts[j].evaluated = 1

\* C10: for every evaluated forecast, P&L is trade size x signed return/100
\* with neither flag set, -trade size x stop-loss %/100 with only stopLossHit
\* set, +trade size x take-profit %/100 with takeProfitHit set; BUY, entry
\* 100, exit 97 gives stopLossHit, P&L -1.5 % of the trade size, WRONG.
C10_PnlFormula ==
    \A i \in Ids :
        forecasts[i].evaluated = 1 =>
            LET f      == forecasts[i]
                ret    == Val(f.return_pct)
                exit   == Val(f.exit_price)
                signed == IF f.signal = "KAUFEN" THEN ret ELSE -ret
                pnl    == Val(f.pnl_usdt)
            IN  /\ ret * f.entry_price = (exit - f.entry_price) * 100000
                /\ (f.sl_hit = 0 /\ f.tp_hit = 0)
                      => pnl * 1000 = TRADE_SIZE_USDT * signed
                /\ (f.sl_hit = 1 /\ f.tp_hit = 0)
                      => pnl * 1000 = -(TRADE_SIZE_USDT * STOP_LOSS_PCT)
                /\ f.tp_hit = 1
                      => pnl * 1000 = TRADE_SIZE_USDT * TAKE_PROFIT_PCT
                /\ (f.signal = "KAUFEN" /\ f.entry_price = 1000 /\ exit = 970)
                      => /\ f.sl_hit = 1 /\ f.tp_hit = 0
                         /\ pnl * 1000 = -(TRADE_SIZE_USDT * 1500)
                         /\ f.outcome = Some("FALSCH")

\* C10 witness: the BUY forecast entered at 100 has been evaluated at 97.
C10_Witness ==
    \E i \in Ids :
        /\ forecasts[i].evaluated = 1
        /\ forecasts[i].signal = "KAUFEN"
        /\ forecasts[i].entry_price = 1000
        /\ forecasts[i].exit_price = Some(970)
        /\ forecasts[i].sl_hit = 1

\* the order SELL < HOLD < BUY
Rank(signal) ==
    CASE signal = "VERKAUFEN" -> 1
      [] signal = "ABWARTEN"  -> 2
      [] signal = "KAUFEN"    -> 3

\* C11: for every profile the threshold th is positive, composite > th gives
\* BUY, composite < -th gives SELL, anything else HOLD; so BUY has a positive
\* and SELL a negative composite score, and under one profile a result with a
\* higher composite score never has a signal lower in SELL < HOLD < BUY.
C11_ClassificationMonotonic ==
    /\ [](analysis # NULL =>
             LET a  == Val(analysis)
                 th == signal_threshold(a.risk)
             IN  /\ th > 0
                 /\ a.score > th * a.weight => a.signal = "KAUFEN"
                 /\ a.score < -th * a.weight => a.signal = "VERKAUFEN"
                 /\ (a.score <= th * a.weight /\ a.score >= -th * a.weight)
                       => a.signal = "ABWARTEN"
                 /\ a.signal = "KAUFEN" => a.score > 0
                 /\ a.signal = "VERKAUFEN" => a.score < 0)
    /\ [][(/\ analysis # NULL /\ analysis' # NULL
            /\ Val(analysis').risk = Val(analysis).risk
            /\ Val(analysis').score * Val(analysis).weight
                  >= Val(analysis).score * Val(analysis').weight)
              => Rank(Val(analysis').signal) >= Rank(Val(analysis).signal)]_vars

\* C11 witness: under the aggressive profile a composite score of 0.16, just
\* above its threshold 0.15, has been classified BUY.
C11_Witness ==
    /\ analysis # NULL
    /\ Val(analysis).risk = "aggressiv"
    /\ Val(analysis).score = 1600
    /\ Val(analysis).signal = "KAUFEN"

\* C14: the three series of calc_macd have the input's length; the signal
\* line is undefined where the MACD line is, and elsewhere is the entry of
\* EMA(signal) over the defined MACD values whose position is the number of
\* defined MACD values before it, so it is defined from index
\* (slow-1)+(signal-1) on; the histogram is MACD line minus signal line where
\* both are defined and undefined elsewhere.
C14_MacdAligned ==
    macd_v # NULL =>
        LET in   == Val(macd_in)
            n    == Len(in.closes)
            ml   == Val(macd_v).ml
            sl   == Val(macd_v).sl
            hist == Val(macd_v).hist
            sr   == calc_ema(SelectSeq(ml, LAMBDA v : v # NULL), in.sig)
            before(i) == Cardinality({j \in 1..(i - 1) : ml[j] # NULL})
        IN  /\ Len(ml) = n /\ Len(sl) = n /\ Len(hist) = n
            /\ \A i \in 1..n :
                  /\ ml[i] = NULL => sl[i] = NULL
                  /\ ml[i] # NULL => sl[i] = sr[before(i) + 1]
                  /\ sl[i] # NULL <=> i - 1 >= (in.slow - 1) + (in.sig - 1)
                  /\ (ml[i] # NULL /\ sl[i] # NULL)
                        => hist[i] = QSub(ml[i], sl[i])
                  /\ (ml[i] = NULL \/ sl[i] = NULL) => hist[i] = NULL

\* C14 witness: with the default periods and 35 closes that end in a step,
\* the signal line is undefined at index 32 and defined at index 33, where
\* it differs from the MACD line.
C14_Witness ==
    /\ macd_v # NULL
    /\ Val(macd_in).slow = 26
    /\ Len(Val(macd_in).closes) = 35
    /\ Val(macd_v).ml[33] # NULL
    /\ Val(macd_v).sl[33] = NULL
    /\ Val(macd_v).sl[34] # NULL
    /\ Val(macd_v).hist[35] # NULL
    /\ Val(macd_v).hist[35] # QInt(0)

\* the names of the components that fired
Fired(r) == {r.scores[i].name : i \in 1..Len(r.scores)}
IsFlat(cs) == \A i \in 1..Len(cs) : cs[i].close = cs[1].close

\* C12: every candle sequence shorter than about 30 entries yields HOLD with
\* low confidence (below the alert threshold), and the price-vs-SMA200
\* component does not fire on it.
C12_ShortHistoryHolds ==
    (history # NULL /\ analysis # NULL /\ Len(Val(history)) < 30)
        => LET r == Val(analysis)
           IN  /\ r.signal = "ABWARTEN"
               /\ r.confidence < CONFIDENCE_THRESHOLD
               /\ "SMA200" \notin Fired(r)

\* C13: for a candle sequence of 20 identical closes RSI is scored neutral
\* (0), the volatility is 0, the composite score is 0, the signal is HOLD
\* and the confidence is 50.
C13_FlatHistoryNeutral ==
    (history # NULL /\ analysis # NULL
        /\ Len(Val(history)) = 20 /\ IsFlat(Val(history)))
        => LET r == Val(analysis)
           IN  /\ \A i \in 1..Len(r.scores) :
                     r.scores[i].name = "RSI" => r.scores[i].score = 0
               /\ r.volatility2 = QZero
               /\ r.score = 0
               /\ r.signal = "ABWARTEN"
               /\ r.confidence = 50

\* C15: every evaluated forecast has flags consistent with its outcome: a
\* stop-loss hit goes with outcome FALSCH and a negative P&L, a take-profit
\* hit with outcome KORREKT and a positive P&L, and the two flags are never
\* both set.
C15_FlagsConsistent ==
    \A i \in Ids :
        forecasts[i].evaluated = 1 =>
            LET f   == forecasts[i]
                pnl == Val(f.pnl_usdt)
            IN  /\ f.sl_hit = 1 => (f.outcome = Some("FALSCH") /\ pnl < 0)
                /\ f.tp_hit = 1 => (f.outcome = Some("KORREKT") /\ pnl > 0)
                /\ ~(f.sl_hit = 1 /\ f.tp_hit = 1)

\* C15 witness: a SELL forecast has been evaluated exactly at its stop-loss
\* price, 1.5 % above the entry price.
C15_Witness ==
    \E i \in Ids :
        /\ forecasts[i].evaluated = 1
        /\ forecasts[i].signal = "VERKAUFEN"
        /\ forecasts[i].entry_price = 2000
        /\ forecasts[i].exit_price = Some(2030)
        /\ forecasts[i].sl_hit = 1
        /\ forecasts[i].tp_hit = 0

Delivered(d) ==
    {i \in 1..Len(summaries) :
        summaries[i].date = d /\ summaries[i].delivered}

\* C16: a date is recorded as summary-sent only after the daily summary was
\* delivered for it (the step that records it is the delivering call), at
\* most one summary is delivered per date and no summary is sent for a
\* recorded date; a failed send leaves the table unchanged, and a cycle
\* that starts inside the summary window of an unrecorded date sends.
C16_SummaryOncePerDate ==
    /\ [](\A d \in daily_summary : Cardinality(Delivered(d)) = 1)
    /\ [](\A d \in 0..(MaxDays - 1) : Cardinality(Delivered(d)) <= 1)
    /\ [][/\ \A d \in daily_summary' \ daily_summary :
                summaries' = Append(summaries, [date |-> d, delivered |-> TRUE])
          /\ Len(summaries') > Len(summaries)
                => LET c == summaries'[Len(summaries')]
                   IN  /\ c.date \notin daily_summary
                       /\ ~c.delivered => daily_summary' = daily_summary
          /\ (wall' # wall /\ hour(wall) = DAILY_SUMMARY_HOUR
                /\ minute(wall) < 6 /\ strftime_date(wall) \notin daily_summary)
                => /\ Len(summaries') = Len(summaries) + 1
                   /\ summaries'[Len(summaries')].date = strftime_date(wall)
         ]_vars

\* C16 witness: on day 0 the summary failed in one cycle, was delivered in a
\* later cycle of the same window and the date is recorded.
C16_Witness ==
    /\ Len(summaries) >= 2
    /\ summaries[1] = [date |-> 0, delivered |-> FALSE]
    /\ summaries[2] = [date |-> 0, delivered |-> TRUE]
    /\ 0 \in daily_summary
    /\ hour(wall) = DAILY_SUMMARY_HOUR
====
